---- MODULE Spec2Model ----
(***************************************************************************)
(* Precision/recall evaluation engine of the Precison-Recall repository:   *)
(*   make_pr.py  - edge extraction, precision, recall, the rank-threshold  *)
(*                 sweep pr_edges, the per-directory driver pr and main    *)
(*   plot_pr.py  - the coherence verifier and the plotting entry point     *)
(*                                                                         *)
(* Floats are modelled as reduced fractions <<n, d>>; NaN is <<0, 0>>.     *)
(* Two Python floats obtained by dividing small integers are equal exactly *)
(* when the fractions are, so dictionary keys behave as reduced fractions. *)
(***************************************************************************)
EXTENDS Integers, Sequences, FiniteSets, TLC

VARIABLES
    predictions,  \* pr_edges: the ranked-edges table, a sequence of rows
    ranked,       \* pr_edges: the table has a 'rank' (or 'KSP index') column
    point,        \* pr_edges: the point argument
    ground,       \* pr_edges: the ground-truth table, a sequence of rows
    negs,         \* pr_edges: the negatives argument, a set
    pc,           \* position of the running routine
    todo,         \* pr_edges: rank values the for loop has not visited yet
    p,            \* pr_edges: the dictionary p (recall -> precision)
    evals,        \* pr_edges: the (recall, precision) printed for each k
    result,       \* pr_edges: the returned dictionary
    table,        \* make_edges: the table handed to make_edges
    prev,         \* make_edges: the table before the last change of its rows
    op,           \* make_edges: the last change made to the rows
    args,         \* plot_pr: the directory names given (args[3:], or lat)
    argv_ok,      \* plot_pr.main: path and save path were given
    path,         \* plot_pr.main: args[1]
    store,        \* negatives.csv of every run directory, or Missing
    directories,  \* plot_pr.main: the list handed to verify_coherence
    coherent,     \* the value verify_coherence returned
    verified,     \* plot_pr.main: the list verify_coherence was called on
    plotted,      \* plot_pr.main: the list handed to plot, or NotPlotted
    files,        \* make_pr: which input files every run directory holds
    negative,     \* make_pr.main: the negative set read from directories[0]
    neg_list,     \* make_pr: list(negative), the order the set iterates in
    idx,          \* make_pr.main: position of the for loop over directories
    prfiles,      \* make_pr.pr: the curve files written in each directory
    ninter,       \* negatives: the interactome table
    npos,         \* negatives: the positives argument, a set of pairs
    nnum,         \* negatives: the num argument
    nbiv,         \* negatives: the bivalent argument
    nres,         \* negatives: the sets returned so far, one per call
    nexc,         \* negatives: the exception that escaped, or NoException
    ulisting,     \* gen_pathway_union: os.listdir(DPATH), run directory names
    ucatalog,     \* gen_pathway_union: PATHWAYS
    uneg,         \* gen_pathway_union: the run directories holding negatives.csv
    upfiles,      \* gen_pathway_union: the [P]-edges.txt table of each pathway
    uplat,        \* join_pathways: the PLAT argument, in iteration order
    usanity,      \* main: what sanity_check returned for each algorithm
    ucomposite,   \* join_pathways: the table returned, or Missing
    ucreated,     \* main: algorithms whose composite directory was made
    uwritten,     \* main: algorithms whose composite files were written
    gground,      \* pr_nodes: the ground truth table
    gnegs,        \* pr_nodes: the negative set, (A, B, pathway) triples
    gexc          \* pr_nodes: the exception that escaped, or NoException

sweepVars == <<predictions, ranked, point, ground, negs, todo, p, evals, result>>
edgeVars == <<table, prev, op>>
cohVars == <<args, argv_ok, path, store, directories, coherent, verified, plotted>>
mainVars == <<files, negative, neg_list, idx, prfiles>>
negVars == <<ninter, npos, nnum, nbiv, nres, nexc>>
unionVars == <<ulisting, ucatalog, uneg, upfiles, uplat, usanity, ucomposite,
               ucreated, uwritten>>
nodeVars == <<gground, gnegs, gexc>>
extraVars == <<negVars, unionVars, nodeVars>>

vars == <<pc, sweepVars, edgeVars, cohVars, mainVars, extraVars>>

----------------------------------------------------------------------------
(* Bounds and the universe of the inputs *)

MaxRank == 3
MaxRows == 3
MaxRuns == 3
MaxDirs == 2
MaxNum == 2
MaxFileRows == 2

PNAME == "p"

\* The interactome of the worked scenario, in the row order of its
\* prediction table.
EdgeList ==
    << <<"A", "B", PNAME>>, <<"C", "D", PNAME>>,
       <<"B", "C", PNAME>>, <<"A", "D", PNAME>> >>

Range(s) == {s[i] : i \in 1..Len(s)}

Interactome == Range(EdgeList)

NoRank == 0 - 1

Row(e, r) == [tail |-> e[1], head |-> e[2], pathway_name |-> e[3], rank |-> r]

RECURSIVE BuildRows(_, _)
\* the table holding, in EdgeList order, edge i with rank f[i] when f[i] # 0
BuildRows(f, i) ==
    IF i > Len(EdgeList) THEN <<>>
    ELSE (IF f[i] = 0 THEN <<>> ELSE <<Row(EdgeList[i], f[i])>>)
         \o BuildRows(f, i + 1)

----------------------------------------------------------------------------
(* Floats *)

RECURSIVE GCD(_, _)
GCD(a, b) == IF b = 0 THEN a ELSE GCD(b, a % b)

\* a / b for integers a >= 0, b > 0
Div(a, b) == LET g == GCD(a, b) IN <<a \div g, b \div g>>

NaN == <<0, 0>>
Zero == <<0, 1>>
One == <<1, 1>>

IsNaN(x) == x[2] = 0
Less(x, y) == x[1] * y[2] < y[1] * x[2]
Leq(x, y) == x[1] * y[2] <= y[1] * x[2]

----------------------------------------------------------------------------
(* make_pr.py: the pure functions *)

\* df[df['rank'] <= k][['#tail','head','pathway_name']]
get_k_eq(k, df) ==
    LET sel == SelectSeq(df, LAMBDA x : x.rank = k)
    IN [i \in 1..Len(sel) |-> <<sel[i].tail, sel[i].head, sel[i].pathway_name>>]

get_k(k, df) ==
    LET sel == SelectSeq(df, LAMBDA x : x.rank <= k)
    IN [i \in 1..Len(sel) |-> <<sel[i].tail, sel[i].head, sel[i].pathway_name>>]

\* df[['#tail','head','pathway_name']]
Project(df) ==
    [i \in 1..Len(df) |-> <<df[i].tail, df[i].head, df[i].pathway_name>>]

NodeOrder == <<"A", "B", "C", "D">>
NodeIdx(n) == CHOOSE i \in 1..Len(NodeOrder) : NodeOrder[i] = n

Reverse(t) == <<t[2], t[1], t[3]>>

\* the endpoints put in a canonical order
Unordered(t) == IF NodeIdx(t[1]) <= NodeIdx(t[2]) THEN t ELSE Reverse(t)

make_edges_unordered(df) == {Unordered(df[i]) : i \in 1..Len(df)}

\* {tuple(x) for x in df.values}
make_edges(df) == {df[i] : i \in 1..Len(df)}

precision_unrestricted(prediction, truth, negatives) ==
    IF Cardinality(prediction) = 0 THEN NaN
    ELSE Div(Cardinality(prediction \cap truth), Cardinality(prediction))

\* the filter, then the division; the except clause returns np.NaN
precision(prediction, truth, negatives) ==
    LET pred == {x \in prediction : x \in truth \/ x \in negatives}
    IN IF Cardinality(pred) = 0 THEN NaN
       ELSE Div(Cardinality(pred \cap truth), Cardinality(pred))

\* recall raises ZeroDivisionError when truth is empty
recall_raises(prediction, truth, negatives) == Cardinality(truth) = 0

recall(prediction, truth, negatives) ==
    LET pred == {x \in prediction : x \in truth \/ x \in negatives}
    IN Div(Cardinality(pred \cap truth), Cardinality(truth))

\* p[b] = a
DictSet(d, k, v) == [x \in DOMAIN d \cup {k} |-> IF x = k THEN v ELSE d[x]]

EmptyDict == [x \in {} |-> Zero]

Filter_v_only(d) ==
    [k \in {x \in DOMAIN d : d[x] # Zero} |-> d[k]]

\* p = {k:v for k,v in p.items() if (v != 0 and k != 0)}
Filter(d) ==
    [k \in {x \in DOMAIN d : d[x] # Zero /\ x # Zero} |-> d[k]]

\* set(predictions['rank'])
RankSet(df) == {df[i].rank : i \in 1..Len(df)}

SetMax(S) == CHOOSE m \in S : \A x \in S : x <= m

\* truth = make_edges(ground[['#tail','head','pathway_name']])
Truth == make_edges(Project(ground))

----------------------------------------------------------------------------
(* pr_edges as a state machine *)

NoOp == [kind |-> "none", i |-> 0, j |-> 0]

EdgeIdle == table = <<>> /\ prev = <<>> /\ op = NoOp

Missing == <<"missing">>
NotPlotted == <<"not plotted">>
NotCalled == <<"not called">>

NoException == "none"

NegIdle ==
    /\ ninter = <<>> /\ npos = {} /\ nnum = 0 /\ nbiv = FALSE
    /\ nres = <<>> /\ nexc = NoException

UnionIdle ==
    /\ ulisting = {} /\ ucatalog = {} /\ uneg = {} /\ upfiles = <<>>
    /\ uplat = <<>> /\ usanity = <<>> /\ ucomposite = <<>>
    /\ ucreated = {} /\ uwritten = {}

NodeIdle == gground = <<>> /\ gnegs = {} /\ gexc = NoException

ExtraIdle == NegIdle /\ UnionIdle /\ NodeIdle

MainIdle ==
    /\ files = <<>> /\ negative = {} /\ neg_list = <<>>
    /\ idx = 0 /\ prfiles = <<>>

CohIdle ==
    /\ args = <<>> /\ argv_ok = FALSE /\ path = <<>>
    /\ store = <<>> /\ directories = <<>> /\ coherent = FALSE
    /\ verified = NotCalled /\ plotted = NotPlotted

\* every edge is a known positive, a negative, both or neither
Labelings == [1..Len(EdgeList) -> {"truth", "neg", "both", "unknown"}]

Init ==
    /\ ranked \in BOOLEAN
    /\ point \in BOOLEAN
    /\ \E f \in [1..Len(EdgeList) -> 0..MaxRank] :
          predictions =
              IF ranked THEN BuildRows(f, 1)
              ELSE BuildRows([i \in 1..Len(EdgeList) |->
                                 IF f[i] = 0 THEN 0 ELSE NoRank], 1)
    /\ \E l \in Labelings :
          /\ ground = BuildRows([i \in 1..Len(EdgeList) |->
                                    IF l[i] \in {"truth", "both"}
                                    THEN NoRank ELSE 0], 1)
          /\ negs = {EdgeList[i] :
                        i \in {j \in 1..Len(EdgeList) : l[j] \in {"neg", "both"}}}
    /\ pc = "call"
    /\ todo = {}
    /\ p = EmptyDict
    /\ evals = EmptyDict
    /\ result = EmptyDict
    /\ EdgeIdle
    /\ CohIdle
    /\ MainIdle
    /\ ExtraIdle

\* one evaluation: a = precision(...), b = recall(...), p[b] = a
Evaluate(k, prediction, last) ==
    IF recall_raises(prediction, Truth, negs)
    THEN /\ pc' = "raised"
         /\ UNCHANGED <<p, evals, result>>
    ELSE LET a == precision(prediction, Truth, negs)
             b == recall(prediction, Truth, negs)
         IN /\ p' = DictSet(p, b, a)
            /\ evals' = DictSet(evals, k, <<b, a>>)
            /\ IF last
               THEN pc' = "done" /\ result' = Filter(p')
               ELSE pc' = "loop" /\ UNCHANGED result

\* ranked and point: k = max(set(predictions['rank'])), one evaluation
PointEval ==
    /\ pc = "call" /\ ranked /\ point
    /\ IF RankSet(predictions) = {}
       THEN pc' = "raised" /\ UNCHANGED <<p, evals, result>>
       ELSE LET k == SetMax(RankSet(predictions))
            IN Evaluate(k, make_edges(get_k(k, predictions)), TRUE)
    /\ UNCHANGED <<predictions, ranked, point, ground, negs, todo>>

\* ranked and not point: enter the for loop over set(predictions['rank'])
SweepStart ==
    /\ pc = "call" /\ ranked /\ ~point
    /\ todo' = RankSet(predictions)
    /\ IF RankSet(predictions) = {}
       THEN pc' = "done" /\ result' = Filter(p)
       ELSE pc' = "loop" /\ UNCHANGED result
    /\ UNCHANGED <<predictions, ranked, point, ground, negs, p, evals>>

\* one iteration of the for loop; the iteration order of a set is not fixed
SweepStep(k) ==
    /\ pc = "loop" /\ k \in todo
    /\ todo' = todo \ {k}
    /\ Evaluate(k, make_edges(get_k(k, predictions)), todo' = {})
    /\ UNCHANGED <<predictions, ranked, point, ground, negs>>

\* not ranked: the whole table is the prediction
UnrankedEval ==
    /\ pc = "call" /\ ~ranked
    /\ Evaluate(NoRank, make_edges(Project(predictions)), TRUE)
    /\ UNCHANGED <<predictions, ranked, point, ground, negs, todo>>

Next ==
    \/ PointEval /\ UNCHANGED <<edgeVars, cohVars, mainVars, extraVars>>
    \/ SweepStart /\ UNCHANGED <<edgeVars, cohVars, mainVars, extraVars>>
    \/ \E k \in 0..MaxRank : SweepStep(k) /\ UNCHANGED <<edgeVars, cohVars, mainVars, extraVars>>
    \/ UnrankedEval /\ UNCHANGED <<edgeVars, cohVars, mainVars, extraVars>>

Spec == Init /\ [][Next]_vars

----------------------------------------------------------------------------
(* Claims about precision, recall and pr_edges *)

\* the rows of the prediction table with rank <= k, as edges
PredAt(k) ==
    {<<r.tail, r.head, r.pathway_name>> :
        r \in {x \in Range(predictions) : x.rank <= k}}

Unknown == Interactome \ (Truth \cup negs)

\* C1: every value computed by pr_edges is taken on the restricted set
\* R = P \cap (T \cup N): precision = |R \cap T| / |R| (NaN when R is empty),
\* recall = |R \cap T| / |T|; adding or removing a predicted element that is
\* in neither T nor N changes neither value; an empty R raises nothing (the
\* only exceptions are the empty truth set and max() of an empty table).
C1_RestrictedPrecisionRecall ==
    /\ \A k \in DOMAIN evals :
          LET P == PredAt(k)
              hits == Cardinality(P \cap Truth)
              kept == Cardinality(P \cap (Truth \cup negs))
          IN /\ evals[k][1] = Div(hits, Cardinality(Truth))
             /\ evals[k][2] = IF kept = 0 THEN NaN ELSE Div(hits, kept)
             /\ \A x \in Unknown :
                   /\ precision(P \cup {x}, Truth, negs) = evals[k][2]
                   /\ precision(P \ {x}, Truth, negs) = evals[k][2]
                   /\ recall(P \cup {x}, Truth, negs) = evals[k][1]
                   /\ recall(P \ {x}, Truth, negs) = evals[k][1]
    /\ pc = "raised" =>
          Truth = {} \/ (ranked /\ point /\ predictions = <<>>)

\* a sweep that met an empty restricted set (NaN precision) at one threshold
\* and, at another, a prediction holding unknown, positive and negative edges
C1_Witness ==
    /\ pc = "done"
    /\ \E k1, k2 \in DOMAIN evals :
          /\ PredAt(k1) # {} /\ IsNaN(evals[k1][2])
          /\ PredAt(k2) \cap Unknown # {}
          /\ evals[k2][2] = <<1, 2>>

NonDegenerate(e) == e[1] # Zero /\ e[2] # Zero /\ ~IsNaN(e[2])

\* C2: the full sweep evaluates every distinct rank value k on the rows with
\* rank <= k and the returned curve holds the pair of every non-degenerate
\* threshold.
C2_NoThresholdLost ==
    (pc = "done" /\ ranked /\ ~point) =>
        /\ DOMAIN evals = RankSet(predictions)
        /\ \A k \in DOMAIN evals :
              NonDegenerate(evals[k]) =>
                  /\ evals[k][1] \in DOMAIN result
                  /\ result[evals[k][1]] = evals[k][2]

\* C3: every pair of the returned curve has a defined precision with
\* 0 < precision <= 1 and 0 < recall <= 1, in every mode.
C3_CurvePointsInRange ==
    pc = "done" =>
        \A b \in DOMAIN result :
            /\ ~IsNaN(result[b]) /\ ~IsNaN(b)
            /\ Less(Zero, result[b]) /\ Leq(result[b], One)
            /\ Less(Zero, b) /\ Leq(b, One)

\* a returned curve with a point, from a run that computed a NaN precision
C3_Witness ==
    /\ pc = "done"
    /\ DOMAIN result # {}
    /\ \E k \in DOMAIN evals : IsNaN(evals[k][2])

RECURSIVE CurveInOrder(_, _)
\* the dictionary p after visiting the rank values of order, one by one
CurveInOrder(order, d) ==
    IF order = <<>> THEN d
    ELSE LET prediction == PredAt(Head(order))
         IN CurveInOrder(Tail(order),
                DictSet(d, recall(prediction, Truth, negs),
                           precision(prediction, Truth, negs)))

Orders(S) ==
    {o \in [1..Cardinality(S) -> S] : \A i, j \in DOMAIN o : o[i] = o[j] => i = j}

\* C4: the curve depends on the inputs only: whatever order the distinct
\* rank values are visited in, the same curve is returned.
C4_OrderIndependent ==
    (pc = "done" /\ ranked /\ ~point) =>
        \A o \in Orders(RankSet(predictions)) :
            result = Filter(CurveInOrder(o, EmptyDict))

\* C5: recall is non-decreasing in the rank threshold.
C5_RecallMonotone ==
    \A k1, k2 \in DOMAIN evals :
        k1 <= k2 => Leq(evals[k1][1], evals[k2][1])

\* a finished sweep whose recall rose strictly, then stayed
C5_Witness ==
    /\ pc = "done"
    /\ \E k1, k2, k3 \in DOMAIN evals :
          /\ k1 < k2 /\ k2 < k3
          /\ Less(evals[k1][1], evals[k2][1])
          /\ evals[k2][1] = evals[k3][1]

IsScenario ==
    /\ ranked /\ ~point
    /\ predictions = BuildRows(<<1, 1, 2, 3>>, 1)
    /\ Truth = {<<"A", "B", PNAME>>, <<"B", "C", PNAME>>}
    /\ negs = {<<"C", "D", PNAME>>, <<"A", "D", PNAME>>}

\* C6: on the worked scenario the sweep computes (recall, precision) =
\* (1/2, 1/2) at k=1, (1, 2/3) at k=2, (1, 2/4) at k=3, and the returned
\* curve holds recall 1/2 -> 1/2 and, for recall 1, the precision 2/3.
C6_Scenario ==
    (IsScenario /\ pc = "done") =>
        /\ evals[1] = <<Div(1, 2), Div(1, 2)>>
        /\ evals[2] = <<Div(1, 1), Div(2, 3)>>
        /\ evals[3] = <<Div(1, 1), Div(2, 4)>>
        /\ Div(1, 2) \in DOMAIN result /\ result[Div(1, 2)] = Div(1, 2)
        /\ One \in DOMAIN result /\ result[One] = Div(2, 3)

----------------------------------------------------------------------------
(* make_edges on a table whose rows are swapped, reordered and repeated *)

EdgeNodes == {"A", "B"}

EdgeRows == {<<a, b, PNAME>> : a \in EdgeNodes, b \in EdgeNodes}

Tables == UNION {[1..n -> EdgeRows] : n \in 0..MaxRows}

SweepIdle ==
    /\ predictions = <<>> /\ ranked = FALSE /\ point = FALSE
    /\ ground = <<>> /\ negs = {} /\ todo = {}
    /\ p = EmptyDict /\ evals = EmptyDict /\ result = EmptyDict

InitEdges ==
    /\ table \in Tables
    /\ prev = table
    /\ op = NoOp
    /\ pc = "table"
    /\ SweepIdle
    /\ CohIdle
    /\ MainIdle
    /\ ExtraIdle

\* row i, (a, b), is rewritten (b, a)
SwapEndpoints(i) ==
    /\ pc = "table" /\ i \in 1..Len(table)
    /\ prev' = table
    /\ table' = [table EXCEPT ![i] = Reverse(table[i])]
    /\ op' = [kind |-> "swap", i |-> i, j |-> i]
    /\ UNCHANGED pc

\* rows i and j change places
ReorderRows(i, j) ==
    /\ pc = "table" /\ i \in 1..Len(table) /\ j \in 1..Len(table) /\ i < j
    /\ prev' = table
    /\ table' = [table EXCEPT ![i] = table[j], ![j] = table[i]]
    /\ op' = [kind |-> "reorder", i |-> i, j |-> j]
    /\ UNCHANGED pc

\* row i is appended once more
RepeatRow(i) ==
    /\ pc = "table" /\ i \in 1..Len(table) /\ Len(table) < MaxRows
    /\ prev' = table
    /\ table' = Append(table, table[i])
    /\ op' = [kind |-> "repeat", i |-> i, j |-> Len(table) + 1]
    /\ UNCHANGED pc

NextEdges ==
    \/ \E i \in 1..MaxRows : SwapEndpoints(i) /\ UNCHANGED <<sweepVars, cohVars, mainVars, extraVars>>
    \/ \E i, j \in 1..MaxRows : ReorderRows(i, j) /\ UNCHANGED <<sweepVars, cohVars, mainVars, extraVars>>
    \/ \E i \in 1..MaxRows : RepeatRow(i) /\ UNCHANGED <<sweepVars, cohVars, mainVars, extraVars>>

SpecEdges == InitEdges /\ [][NextEdges]_vars

\* a prediction t scores against the truth table df
IsHit(t, df) == recall(make_edges(<<t>>), make_edges(df), {}) # Zero

----------------------------------------------------------------------------
(* plot_pr.py: the coherence verifier and the plotting entry point.        *)
(* Names are sequences of characters, so that split and join are computed. *)

Algorithms == {<<"a">>, <<"b">>}
Interactomes == {<<"i">>, <<"j">>}
Pathways == {<<"p">>, <<"q">>}

Triples == [alg : Algorithms, interactome : Interactomes, pathway : Pathways]

\* [algorithm]_[interactome]_[pathway]
IdOf(t) == t.alg \o <<"_">> \o t.interactome \o <<"_">> \o t.pathway

RunIds == {IdOf(t) : t \in Triples}

LabelsOf(id) == CHOOSE t \in Triples : IdOf(t) = id

\* args[1] of plot_pr.main: a plain directory, and one with "_" in its name
Paths == {<<"d">>, <<"x", "_", "y">>}

\* the persisted negatives of a run: rows of pairs
NegFrames ==
    {<<EdgeList[2], EdgeList[4]>>, <<EdgeList[2], EdgeList[1]>>}

Artifacts == NegFrames \cup {Missing}

\* characters in ASCII order
CharOrder == <<"/", "_", "a", "b", "d", "i", "j", "p", "q", "x", "y">>
CharIdx(c) == CHOOSE i \in 1..Len(CharOrder) : CharOrder[i] = c

RECURSIVE StrLess(_, _)
\* s < t for Python strings
StrLess(s, t) ==
    IF t = <<>> THEN FALSE
    ELSE IF s = <<>> THEN TRUE
    ELSE IF Head(s) = Head(t) THEN StrLess(Tail(s), Tail(t))
    ELSE CharIdx(Head(s)) < CharIdx(Head(t))

RECURSIVE SortedSet(_)
\* sorted(list(set(...)))
SortedSet(S) ==
    IF S = {} THEN <<>>
    ELSE LET m == CHOOSE x \in S : \A y \in S \ {x} : StrLess(x, y)
         IN <<m>> \o SortedSet(S \ {m})

RECURSIVE Split(_, _)
\* s.split(sep)
Split(s, sep) ==
    IF \E i \in 1..Len(s) : s[i] = sep
    THEN LET i == CHOOSE n \in 1..Len(s) :
                      s[n] = sep /\ \A m \in 1..(n - 1) : s[m] # sep
         IN <<SubSeq(s, 1, i - 1)>> \o Split(SubSeq(s, i + 1, Len(s)), sep)
    ELSE <<s>>

\* os.path.join(path, d)
PathJoin(dir, d) == dir \o <<"/">> \o d

\* the last component of a path
Basename(name) == LET parts == Split(name, "/") IN parts[Len(parts)]

\* utils.read_df(name, 'negatives.csv')
read_df(name) == store[Basename(name)]

\* x.split('_')[n] raises IndexError when there are not n + 1 fields
field_raises(x, n) == Len(Split(x, "_")) < n + 1
field(x, n) == Split(x, "_")[n + 1]

verify_negatives_raises(lat) ==
    Len(lat) = 0 \/ \E j \in 1..Len(lat) : read_df(lat[j]) = Missing

\* all(df.equals(i) for i in [utils.read_df(j,negfilename) for j in lat[1:]])
verify_negatives(lat) ==
    LET df == read_df(lat[1])
    IN \A j \in 2..Len(lat) : df = read_df(lat[j])

verify_pathway_raises(lat) ==
    Len(lat) = 0 \/ \E j \in 1..Len(lat) : field_raises(lat[j], 2)

verify_pathway_wrong_field(lat) ==
    LET q == field(lat[1], 1)
    IN \A j \in 2..Len(lat) : q = field(lat[j], 1)

\* f = lambda x: x.split('_')[2]; all(p == q for q in [f(l) for l in lat[1:]])
verify_pathway(lat) ==
    LET q == field(lat[1], 2)
    IN \A j \in 2..Len(lat) : q = field(lat[j], 2)

verify_interactome_raises(lat) ==
    Len(lat) = 0 \/ \E j \in 1..Len(lat) : field_raises(lat[j], 1)

\* f = lambda x: x.split('_')[1]
verify_interactome(lat) ==
    LET q == field(lat[1], 1)
    IN \A j \in 2..Len(lat) : q = field(lat[j], 1)

\* the list [verify_negatives(..), verify_pathway(..), verify_interactome(..)]
\* is built before all() sees it: an exception in any of the three escapes
verify_coherence_raises(lat) ==
    \/ verify_negatives_raises(lat)
    \/ verify_pathway_raises(lat)
    \/ verify_interactome_raises(lat)

verify_coherence(lat) ==
    /\ verify_negatives(lat)
    /\ verify_pathway(lat)
    /\ verify_interactome(lat)

Gate_ignored(ok) == TRUE

\* if verify_coherence(directories,NODE_MOTIVATION):
Gate(ok) == ok

Lists == UNION {[1..n -> RunIds] : n \in 0..MaxRuns}

InitCoh ==
    /\ pc \in {"direct", "main"}
    /\ argv_ok \in BOOLEAN
    /\ pc = "direct" => argv_ok
    /\ args \in Lists
    /\ ~argv_ok => args = <<>>
    /\ path \in Paths
    /\ pc = "direct" \/ ~argv_ok => path = <<"d">>
    /\ \E st \in [Range(args) -> Artifacts] :
          store = [id \in RunIds |-> IF id \in Range(args) THEN st[id] ELSE Missing]
    /\ directories = <<>>
    /\ coherent = FALSE
    /\ verified = NotCalled
    /\ plotted = NotPlotted
    /\ SweepIdle
    /\ EdgeIdle
    /\ MainIdle
    /\ ExtraIdle

\* verify_coherence(lat) called on a list of run identifiers
VerifyCall ==
    /\ pc = "direct"
    /\ IF verify_coherence_raises(args)
       THEN pc' = "raised" /\ UNCHANGED coherent
       ELSE pc' = "returned" /\ coherent' = verify_coherence(args)
    /\ UNCHANGED <<args, argv_ok, path, store, directories, verified, plotted>>

\* main: path,spath,directories = args[1],args[2],sorted(list(set(args[3:])))
\* then directories = [os.path.join(path,d) for d in directories]; without
\* the arguments the except clause prints and the next line raises NameError
MainArgs ==
    /\ pc = "main"
    /\ IF argv_ok
       THEN LET sorted == SortedSet(Range(args))
            IN /\ directories' = [i \in 1..Len(sorted) |-> PathJoin(path, sorted[i])]
               /\ pc' = "verify"
       ELSE pc' = "raised" /\ UNCHANGED directories
    /\ UNCHANGED <<args, argv_ok, path, store, coherent, verified, plotted>>

\* main: the call verify_coherence(directories,NODE_MOTIVATION) and the if
MainVerify ==
    /\ pc = "verify"
    /\ IF verify_coherence_raises(directories)
       THEN pc' = "raised" /\ UNCHANGED <<coherent, verified>>
       ELSE /\ coherent' = verify_coherence(directories)
            /\ verified' = directories
            /\ pc' = IF Gate(coherent') THEN "plot" ELSE "report"
    /\ UNCHANGED <<args, argv_ok, path, store, directories, plotted>>

\* main: plot(directories,spath,PARAMS,True)
MainPlot ==
    /\ pc = "plot"
    /\ plotted' = directories
    /\ pc' = "done"
    /\ UNCHANGED <<args, argv_ok, path, store, directories, coherent, verified>>

\* main: 'Coherence could not be established. Terminating...' and the
\* three checks printed one by one
MainReport ==
    /\ pc = "report"
    /\ pc' = "done"
    /\ UNCHANGED cohVars

NextCoh ==
    \/ VerifyCall /\ UNCHANGED <<sweepVars, edgeVars, mainVars, extraVars>>
    \/ MainArgs /\ UNCHANGED <<sweepVars, edgeVars, mainVars, extraVars>>
    \/ MainVerify /\ UNCHANGED <<sweepVars, edgeVars, mainVars, extraVars>>
    \/ MainPlot /\ UNCHANGED <<sweepVars, edgeVars, mainVars, extraVars>>
    \/ MainReport /\ UNCHANGED <<sweepVars, edgeVars, mainVars, extraVars>>

SpecCoh == InitCoh /\ [][NextCoh]_vars

\* C7: verify_coherence returns true exactly when every run of the list has
\* the first run's negative artifact, the first run's pathway label (third
\* field of the identifier) and the first run's interactome label (second
\* field); one run differing in one of the three makes it false.
C7_CoherenceIffAllAgree ==
    pc = "returned" =>
        (coherent <=>
            \A n \in 1..Len(args) :
                /\ store[args[n]] = store[args[1]]
                /\ LabelsOf(args[n]).pathway = LabelsOf(args[1]).pathway
                /\ LabelsOf(args[n]).interactome = LabelsOf(args[1]).interactome)

\* three runs, one of them differing from the first in the negative artifact
\* only (by a single pair) while another agrees with it: false is returned
C7_Witness ==
    /\ pc = "returned" /\ ~coherent
    /\ Len(args) = 3
    /\ \E n, m \in 2..3 :
          /\ n # m
          /\ store[args[m]] = store[args[1]]
          /\ store[args[n]] # store[args[1]]
          /\ \A k \in {n, m} :
                /\ LabelsOf(args[k]).pathway = LabelsOf(args[1]).pathway
                /\ LabelsOf(args[k]).interactome = LabelsOf(args[1]).interactome

\* C8: main hands a list to a plot routine only after verify_coherence has
\* returned true for that same list; when it returned false, or raised,
\* nothing is plotted.
C8_PlotOnlyAfterCoherence ==
    /\ plotted # NotPlotted =>
          /\ verified = plotted
          /\ verify_coherence(plotted)
          /\ coherent
    /\ (verified # NotCalled /\ ~coherent) => plotted = NotPlotted
    /\ pc = "raised" => plotted = NotPlotted
    /\ pc = "plot" => coherent

\* a run of main that plotted two coherent directories
C8_Witness ==
    /\ pc = "done"
    /\ plotted # NotPlotted
    /\ Len(plotted) = 2
    /\ verified = plotted

\* a run of main that found two directories incoherent and plotted nothing
C8_RefusedWitness ==
    /\ pc = "done"
    /\ verified # NotCalled /\ ~coherent
    /\ Len(verified) = 2
    /\ plotted = NotPlotted

----------------------------------------------------------------------------
(* make_pr.py: main and pr over a list of run directories                  *)

\* a line of negatives.csv under the header: the text of a tuple, written
\* between double quotes or bare
Line(t, q) == [tup |-> t, quoted |-> q]

\* eval(x): a quoted line is a string literal, a bare line a tuple
eval(line) ==
    [kind |-> IF line.quoted THEN "str" ELSE "tuple", tup |-> line.tup]

\* DataFrame.to_csv of one cell: str(tuple) and the string both hold commas,
\* so the cell is written between double quotes
to_csv_cell(v) == Line(v.tup, TRUE)

NegFiles ==
    { <<Line(EdgeList[2], TRUE), Line(EdgeList[4], TRUE)>>,
      <<Line(EdgeList[4], TRUE), Line(EdgeList[2], TRUE)>>,
      <<Line(EdgeList[2], FALSE), Line(EdgeList[4], FALSE)>> }

\* the run directories, in the order of the command line: the runs of one
\* interactome and pathway first
AllDirs ==
    LET same == {id \in RunIds : /\ LabelsOf(id).interactome = <<"i">>
                                 /\ LabelsOf(id).pathway = <<"p">>}
    IN SortedSet(same) \o SortedSet(RunIds \ same)

InputFiles == {"config.conf", "ranked-edges.csv", "ground.csv", "interactome.csv"}

\* a directory holds everything, or lacks one of its input files
FileSets == {InputFiles} \cup {InputFiles \ {f} : f \in InputFiles}

Perms(S) ==
    {o \in [1..Cardinality(S) -> S] : \A i, j \in DOMAIN o : o[i] = o[j] => i = j}

\* make_nodes: tuple(x[0],x[2]) is a TypeError (and line 52 does not parse)
make_nodes_raises == TRUE

\* pr_nodes calls make_nodes on the ground truth before anything else
pr_nodes_raises == make_nodes_raises

\* pr returns at the first input file it cannot load
pr_skips(d) ==
    \/ "ranked-edges.csv" \notin files[d]
    \/ "ground.csv" \notin files[d]
    \/ "interactome.csv" \notin files[d]

\* pr_nodes is called for edges == False and edges == '#', outside any try
pr_raises(d, edges) ==
    ~pr_skips(d) /\ edges \in {"False", "#"} /\ pr_nodes_raises

\* pr(dname, negative, pname, edges, point): what it leaves on disk. With
\* edges == True p2 is unbound, the NameError is printed, and pr-edges.csv
\* and negatives.csv are written. The tables are taken to be such that
\* pr_edges returns; the content of pr-edges.csv is not kept.
pr(d, edges) ==
    IF pr_skips(d) \/ pr_raises(d, edges)
    THEN UNCHANGED <<store, prfiles>>
    ELSE /\ prfiles' = [prfiles EXCEPT ![d] = @ \cup {"pr-edges.csv"}]
         /\ store' = [store EXCEPT
                         ![d] = [i \in 1..Len(neg_list) |-> to_csv_cell(neg_list[i])]]

InitMain ==
    /\ pc \in {"mp_main", "mp_pr"}
    /\ \E n \in 0..MaxDirs : args = SubSeq(AllDirs, 1, n)
    /\ pc = "mp_pr" => Len(args) = 1
    /\ argv_ok \in BOOLEAN
    /\ ~argv_ok => pc = "mp_main" /\ args = <<>>
    /\ \E fl \in [Range(args) -> FileSets] :
          files = [id \in RunIds |-> IF id \in Range(args) THEN fl[id] ELSE {}]
    /\ \E st \in [Range(args) -> NegFiles \cup {Missing}] :
          store = [id \in RunIds |-> IF id \in Range(args) THEN st[id] ELSE Missing]
    /\ prfiles = [id \in RunIds |-> {}]
    /\ IF pc = "mp_pr"
       THEN /\ negative \in
                  {{eval(l) : l \in Range(nf)} : nf \in NegFiles}
            /\ neg_list \in Perms(negative)
       ELSE negative = {} /\ neg_list = <<>>
    /\ idx = 0
    /\ path = <<>> /\ directories = <<>> /\ coherent = FALSE
    /\ verified = NotCalled /\ plotted = NotPlotted
    /\ SweepIdle
    /\ EdgeIdle
    /\ ExtraIdle

\* main up to the for loop: without arguments it prints and returns;
\* directories[0] must exist and hold interactome.csv, ground.csv and
\* negatives.csv, or an exception escapes;
\* negative = {eval(x) for x in f.read().splitlines()[1:]}
\* (pname, directories[0].split('_')[-2], reaches pr_nodes only)
MainLoad ==
    /\ pc = "mp_main"
    /\ IF ~argv_ok
       THEN pc' = "mp_returned" /\ UNCHANGED <<negative, neg_list, idx>>
       ELSE IF \/ Len(args) = 0
               \/ "interactome.csv" \notin files[args[1]]
               \/ "ground.csv" \notin files[args[1]]
               \/ store[args[1]] = Missing
       THEN pc' = "mp_raised" /\ UNCHANGED <<negative, neg_list, idx>>
       ELSE /\ negative' = {eval(l) : l \in Range(store[args[1]])}
            /\ neg_list' \in Perms(negative')
            /\ idx' = 1
            /\ pc' = "mp_loop"
    /\ UNCHANGED <<args, argv_ok, path, store, directories, coherent,
                   verified, plotted, files, prfiles>>

\* one iteration of the for loop: without config.conf main returns the
\* exception; otherwise pr(d,negative,pname,'#',POINT)
MainIter ==
    /\ pc = "mp_loop" /\ idx <= Len(args)
    /\ LET d == args[idx]
       IN IF "config.conf" \notin files[d]
          THEN pc' = "mp_returned" /\ UNCHANGED <<store, prfiles, idx>>
          ELSE /\ pr(d, "#")
               /\ idx' = idx + 1
               /\ pc' = IF pr_raises(d, "#") THEN "mp_raised"
                        ELSE IF idx' > Len(args) THEN "mp_done"
                        ELSE "mp_loop"
    /\ UNCHANGED <<args, argv_ok, path, directories, coherent, verified,
                   plotted, files, negative, neg_list>>

\* pr called on one directory with a negative set
PrCall(edges) ==
    /\ pc = "mp_pr"
    /\ pr(args[1], edges)
    /\ pc' = IF pr_raises(args[1], edges) THEN "mp_raised" ELSE "mp_pr_done"
    /\ UNCHANGED <<args, argv_ok, path, directories, coherent, verified,
                   plotted, files, negative, neg_list, idx>>

NextMain ==
    \/ MainLoad /\ UNCHANGED <<sweepVars, edgeVars, extraVars>>
    \/ MainIter /\ UNCHANGED <<sweepVars, edgeVars, extraVars>>
    \/ \E edges \in {"True", "False", "#"} :
          PrCall(edges) /\ UNCHANGED <<sweepVars, edgeVars, extraVars>>

SpecMain == InitMain /\ [][NextMain]_vars

\* C9: after main has gone through the list, every directory holds the same
\* negatives.csv, it is the negative set the curves were computed with, and
\* verify_negatives passes on the list; also when a run was skipped.
C9_SameNegativesEverywhere ==
    pc = "mp_done" =>
        /\ \A n \in 1..Len(args) :
              /\ store[args[n]] # Missing
              /\ store[args[n]] = store[args[1]]
              /\ {eval(l) : l \in Range(store[args[n]])} = negative
        /\ ~verify_negatives_raises(args)
        /\ verify_negatives(args)

----------------------------------------------------------------------------
(* make_pr.py: negatives(interactome, positives, pname, num, bivalent)     *)

DefaultFactor == 50

\* interactome.take([0,1],axis=1)
Take01(df) == [i \in 1..Len(df) |-> <<df[i][1], df[i][2]>>]

\* if num == 0: num = len(positives)*50
neg_num(positives, num) ==
    IF num = 0 THEN Cardinality(positives) * DefaultFactor ELSE num

neg_pool_no_subtract(interactome, positives) == make_edges(Take01(interactome))

\* edges = make_edges(interactome.take([0,1],axis=1)); edges = edges - positives
neg_pool(interactome, positives) == make_edges(Take01(interactome)) \ positives

\* random.sample(population, k) raises ValueError when k exceeds the
\* population or is negative
sample_raises(pool, k) == k > Cardinality(pool) \/ k < 0

\* the sets random.sample can return
Samples(pool, k) == {S \in SUBSET pool : Cardinality(S) = k}

\* psamp = {(a,b,pname) for (a,b) in samp}
Tagged(samp, pname) == {<<e[1], e[2], pname>> : e \in samp}

NegPairs == {<<a, b>> : a \in EdgeNodes, b \in EdgeNodes}

\* interactome rows: tail, head, weight
NegTables == UNION {[1..n -> {<<e[1], e[2], 1>> : e \in NegPairs}] : n \in 0..MaxRows}

InitNeg ==
    /\ ninter \in NegTables
    /\ npos \in SUBSET NegPairs
    /\ nnum \in 0..MaxNum
    /\ nbiv \in BOOLEAN
    /\ nres = <<>>
    /\ nexc = NoException
    /\ pc = "neg_call"
    /\ SweepIdle
    /\ EdgeIdle
    /\ CohIdle
    /\ MainIdle
    /\ UnionIdle
    /\ NodeIdle

\* one call of negatives on the inputs; a second call follows the first
NegativesCall ==
    /\ pc = "neg_call"
    /\ LET num == neg_num(npos, nnum)
           edges == neg_pool(ninter, npos)
       IN IF nbiv
          THEN /\ nres' = Append(nres, edges)
               /\ pc' = IF Len(nres') = 2 THEN "neg_done" ELSE "neg_call"
               /\ UNCHANGED nexc
          ELSE IF sample_raises(edges, num)
          THEN /\ nexc' = "ValueError"
               /\ pc' = "neg_raised"
               /\ UNCHANGED nres
          ELSE /\ \E samp \in Samples(edges, num) :
                     nres' = Append(nres, Tagged(samp, PNAME))
               /\ pc' = IF Len(nres') = 2 THEN "neg_done" ELSE "neg_call"
               /\ UNCHANGED nexc
    /\ UNCHANGED <<ninter, npos, nnum, nbiv>>

NextNeg ==
    NegativesCall /\ UNCHANGED <<sweepVars, edgeVars, cohVars, mainVars, unionVars, nodeVars>>

SpecNeg == InitNeg /\ [][NextNeg]_vars

\* the interactome edge set, read off the table
InterEdges == {<<ninter[i][1], ninter[i][2]>> : i \in 1..Len(ninter)}

\* C11 as stated: with bivalent=True the result is disjoint from positives,
\* inside the interactome edge set, has exactly |interactome| - |positives|
\* elements, and two calls return the same set.
C11_BivalentCount ==
    nbiv =>
        \A i \in 1..Len(nres) :
            /\ nres[i] \cap npos = {}
            /\ nres[i] \subseteq InterEdges
            /\ Cardinality(nres[i]) = Cardinality(InterEdges) - Cardinality(npos)
            /\ nres[i] = nres[1]

\* C11 amended: with bivalent=True the result is the interactome edge set
\* minus positives: disjoint from positives, inside the interactome edge
\* set, holding every interactome edge that is no positive, so its size is
\* |interactome edges| - |positives that are interactome edges|; two calls
\* return the same set and nothing is raised.
C11_BivalentPool ==
    nbiv =>
        /\ pc # "neg_raised"
        /\ \A i \in 1..Len(nres) :
              /\ nres[i] \cap npos = {}
              /\ nres[i] \subseteq InterEdges
              /\ \A e \in InterEdges : e \notin npos => e \in nres[i]
              /\ Cardinality(nres[i]) =
                    Cardinality(InterEdges) - Cardinality(InterEdges \cap npos)
              /\ nres[i] = nres[1]

\* two bivalent calls done, on positives of which one is an interactome
\* edge and one is not, with a non-empty result
C11_Witness ==
    /\ nbiv /\ pc = "neg_done" /\ Len(nres) = 2
    /\ npos \cap InterEdges # {}
    /\ npos \ InterEdges # {}
    /\ nres[1] # {}

\* C12: without bivalent, a count (50 x |positives| when num is 0) above
\* the size of the candidate pool ends in InsufficientCandidatesError and no
\* set is returned; otherwise exactly count distinct pairs of the pool are
\* returned.
C12_TypedFailureOrExactCount ==
    ~nbiv =>
        LET count == neg_num(npos, nnum)
            pool == InterEdges \ npos
        IN /\ count > Cardinality(pool) =>
                 /\ nres = <<>>
                 /\ pc = "neg_raised" => nexc = "InsufficientCandidatesError"
           /\ \A i \in 1..Len(nres) :
                 /\ Cardinality(nres[i]) = count
                 /\ {<<t[1], t[2]>> : t \in nres[i]} \subseteq pool

\* ---------------------------------------------------------------------
\* gen_pathway_union.py: the composite aggregator
\* ---------------------------------------------------------------------

\* algorithm and pathway names; one name of each kind is contained in
\* the other, as "PathLinker" is in "PathLinkerRerank"
AlgNames == {<<"a">>, <<"a", "b">>}
PathwayNames == {<<"p">>, <<"p", "q">>}

\* a run directory name [algorithm]_[interactome]_[pathway]
RunName(A, P) == A \o <<"_">> \o <<"i">> \o <<"_">> \o P
RunNames == {RunName(A, P) : A \in AlgNames, P \in PathwayNames}

\* sub in s
Contains(sub, s) ==
    \E i \in 0..(Len(s) - Len(sub)) : SubSeq(s, i + 1, i + Len(sub)) = sub

\* re.match("^{}_".format(A), x)
MatchPrefix(A, x) ==
    /\ Len(x) >= Len(A) + 1
    /\ SubSeq(x, 1, Len(A) + 1) = A \o <<"_">>

\* ALGORITHMS = {x.split('_')[0] for x in os.listdir(DPATH)}
ALGORITHMS(listing) == {Split(x, "_")[1] : x \in listing}

\* sanity_check(A)
sanity_check(listing, catalog, A) ==
    LET dirs == {x \in listing : Contains(A, x)}
    IN \A P \in catalog : \E d \in dirs : Contains(P, d)

\* join(A): edge_lists[0] raises IndexError when no directory matches
join_raises(listing, A) == {x \in listing : MatchPrefix(A, x)} = {}

\* the rows of a [P]-edges.txt file: #tail, head, pathway_name
FileRows == {<<t[1], t[2], P>> : t \in {<<"A", "B">>, <<"B", "A">>},
                                 P \in {"p", "pq"}}
FileTables == UNION {[1..n -> FileRows] : n \in 0..MaxFileRows}

RECURSIVE Concat(_, _, _)
\* pd.concat of the tables of PLAT[i..], in order
Concat(pfiles, PLAT, i) ==
    IF i > Len(PLAT) THEN <<>>
    ELSE pfiles[PLAT[i]] \o Concat(pfiles, PLAT, i + 1)

RECURSIVE DropDuplicates(_)
\* df.drop_duplicates().reset_index(drop=True): the first of equal rows stays
DropDuplicates(df) ==
    IF df = <<>> THEN <<>>
    ELSE LET init == DropDuplicates(SubSeq(df, 1, Len(df) - 1))
             last == df[Len(df)]
         IN IF last \in Range(init) THEN init ELSE Append(init, last)

\* join_pathways(PLAT): pathways[0] raises IndexError on an empty PLAT
join_pathways_raises(PLAT) == Len(PLAT) = 0

\* join_pathways without drop_duplicates
join_pathways_keep_all(pfiles, PLAT) == Concat(pfiles, PLAT, 1)

join_pathways(pfiles, PLAT) == DropDuplicates(Concat(pfiles, PLAT, 1))

\* next(x for x in os.listdir(dpath) if P in x), for a listing order
FirstWith(order, P) ==
    LET hits == {n \in 1..Len(order) : Contains(P, order[n])}
    IN order[CHOOSE n \in hits : \A m \in hits : n <= m]

\* join_negatives(dpath, PLAT): IndexError on an empty PLAT, StopIteration
\* when no directory name contains a pathway, FileNotFoundError when the
\* directory found holds no negatives.csv
join_negatives_raises(order, withneg, PLAT) ==
    \/ Len(PLAT) = 0
    \/ \E i \in 1..Len(PLAT) :
          \/ \A n \in 1..Len(order) : ~Contains(PLAT[i], order[n])
          \/ FirstWith(order, PLAT[i]) \notin withneg

\* the tables main is run on
MainTables == {t \in FileTables : Len(t) <= 1}

InitUnion ==
    /\ ulisting \in SUBSET RunNames
    /\ ucatalog \in SUBSET PathwayNames
    /\ uneg \in SUBSET ulisting
    /\ upfiles \in [ucatalog -> MainTables]
    /\ uplat = <<>>
    /\ usanity = <<>>
    /\ ucomposite = Missing
    /\ ucreated = {}
    /\ uwritten = {}
    /\ pc = "u_main"
    /\ SweepIdle
    /\ EdgeIdle
    /\ CohIdle
    /\ MainIdle
    /\ NegIdle
    /\ NodeIdle

\* main, lines 95-106: the sanity checks and the early return
UnionCheck ==
    /\ pc = "u_main"
    /\ usanity' = [A \in ALGORITHMS(ulisting) |->
                      sanity_check(ulisting, ucatalog, A)]
    /\ pc' = IF \E A \in ALGORITHMS(ulisting) : ~usanity'[A]
             THEN "u_refused" ELSE "u_build"
    /\ UNCHANGED <<ulisting, ucatalog, uneg, upfiles, uplat, ucomposite,
                   ucreated, uwritten>>

\* main, lines 107-121: join_negatives, join_pathways, the mkdir loop
UnionBuild ==
    /\ pc = "u_build"
    /\ \E PLAT \in Perms(ucatalog), order \in Perms(ulisting) :
          IF join_negatives_raises(order, uneg, PLAT)
             \/ join_pathways_raises(PLAT)
          THEN /\ pc' = "u_raised"
               /\ UNCHANGED <<uplat, ucomposite, ucreated>>
          ELSE /\ uplat' = PLAT
               /\ ucomposite' = join_pathways(upfiles, PLAT)
               /\ ucreated' = ALGORITHMS(ulisting)
               /\ pc' = "u_populate"
    /\ UNCHANGED <<ulisting, ucatalog, uneg, upfiles, usanity, uwritten>>

\* main, lines 122-134: one round of the populate loop
UnionPopulate(ALG) ==
    /\ pc = "u_populate"
    /\ ALG \in ucreated \ uwritten
    /\ IF join_raises(ulisting, ALG)
       THEN pc' = "u_raised" /\ UNCHANGED uwritten
       ELSE /\ uwritten' = uwritten \cup {ALG}
            /\ pc' = IF uwritten' = ucreated THEN "u_done" ELSE "u_populate"
    /\ UNCHANGED <<ulisting, ucatalog, uneg, upfiles, uplat, usanity,
                   ucomposite, ucreated>>

NextUnion ==
    \/ UnionCheck /\ UNCHANGED <<sweepVars, edgeVars, cohVars, mainVars, negVars, nodeVars>>
    \/ UnionBuild /\ UNCHANGED <<sweepVars, edgeVars, cohVars, mainVars, negVars, nodeVars>>
    \/ \E ALG \in AlgNames :
          UnionPopulate(ALG)
          /\ UNCHANGED <<sweepVars, edgeVars, cohVars, mainVars, negVars, nodeVars>>

SpecUnion == InitUnion /\ [][NextUnion]_vars

\* C13: main makes no composite directory and writes no composite file
\* when some algorithm of the listing has no run directory of its own for
\* some pathway of the catalog, and sanity_check(A) is true exactly when
\* algorithm A has a run directory of its own for every pathway itself.
C13_RefusesPartialComposite ==
    /\ (\E A \in ALGORITHMS(ulisting), P \in ucatalog :
            RunName(A, P) \notin ulisting)
           => ucreated = {} /\ uwritten = {}
    /\ \A A \in DOMAIN usanity :
           usanity[A] = (\A P \in ucatalog : RunName(A, P) \in ulisting)

\* ---------------------------------------------------------------------
\* join_pathways on its own
\* ---------------------------------------------------------------------

InitJoin ==
    /\ upfiles \in [PathwayNames -> FileTables]
    /\ uplat \in UNION {Perms(S) : S \in SUBSET PathwayNames}
    /\ ucomposite = Missing
    /\ ulisting = {} /\ ucatalog = {} /\ uneg = {} /\ usanity = <<>>
    /\ ucreated = {} /\ uwritten = {}
    /\ pc = "j_call"
    /\ SweepIdle
    /\ EdgeIdle
    /\ CohIdle
    /\ MainIdle
    /\ NegIdle
    /\ NodeIdle

JoinPathwaysCall ==
    /\ pc = "j_call"
    /\ IF join_pathways_raises(uplat)
       THEN pc' = "j_raised" /\ UNCHANGED ucomposite
       ELSE /\ ucomposite' = join_pathways(upfiles, uplat)
            /\ pc' = "j_done"
    /\ UNCHANGED <<ulisting, ucatalog, uneg, upfiles, uplat, usanity,
                   ucreated, uwritten>>

NextJoin ==
    JoinPathwaysCall /\ UNCHANGED <<sweepVars, edgeVars, cohVars, mainVars, negVars, nodeVars>>

SpecJoin == InitJoin /\ [][NextJoin]_vars

RECURSIVE SumLen(_, _, _)
SumLen(pfiles, PLAT, i) ==
    IF i > Len(PLAT) THEN 0
    ELSE Len(pfiles[PLAT[i]]) + SumLen(pfiles, PLAT, i + 1)

\* the rows of the constituent pathways
Constituents == UNION {Range(upfiles[uplat[i]]) : i \in 1..Len(uplat)}

\* C14: the table join_pathways returns holds every row of every
\* constituent pathway, only rows of constituent pathways, no row twice,
\* and at most as many rows as the constituents have together.
C14_DeduplicatedUnion ==
    pc = "j_done" =>
        /\ Constituents \subseteq Range(ucomposite)
        /\ Range(ucomposite) \subseteq Constituents
        /\ \A i, j \in 1..Len(ucomposite) :
               ucomposite[i] = ucomposite[j] => i = j
        /\ Len(ucomposite) = Cardinality(Constituents)
        /\ Len(ucomposite) <= SumLen(upfiles, uplat, 1)

\* two pathways joined that share a row, one of them with a row of its
\* own, so rows were dropped and rows of both are in the result
C14_Witness ==
    /\ pc = "j_done"
    /\ Len(uplat) = 2
    /\ Range(upfiles[uplat[1]]) \cap Range(upfiles[uplat[2]]) # {}
    /\ Range(upfiles[uplat[2]]) \ Range(upfiles[uplat[1]]) # {}
    /\ Len(ucomposite) < SumLen(upfiles, uplat, 1)
    /\ Len(ucomposite) >= 2

\* ---------------------------------------------------------------------
\* make_pr.py: pr_nodes and make_nodes
\* ---------------------------------------------------------------------

\* what make_nodes ends in: line 52, tuple([x[1],x[2]), does not parse, so
\* make_pr.py stops with a SyntaxError; with that line made to parse,
\* line 51, tuple(x[0],x[2]), is a TypeError on the first row, and on a
\* table without rows the two-argument calls of lines 149 and 157 and the
\* x[3] of line 131 are the next to fail
make_nodes_outcomes == {"SyntaxError", "TypeError"}

InitNodes ==
    /\ gground \in FileTables
    /\ gnegs \in SUBSET Tagged(NegPairs, PNAME)
    /\ gexc = NoException
    /\ pc = "n_call"
    /\ SweepIdle
    /\ EdgeIdle
    /\ CohIdle
    /\ MainIdle
    /\ NegIdle
    /\ UnionIdle

\* pr_nodes(predictions, ground, negatives, pname): its first statement is
\* truth = make_nodes(ground[[...]]); predictions is not read before it
PrNodesCall ==
    /\ pc = "n_call"
    /\ IF pr_nodes_raises
       THEN /\ gexc' \in make_nodes_outcomes
            /\ pc' = "n_raised"
       ELSE /\ pc' = "n_done"
            /\ UNCHANGED gexc
    /\ UNCHANGED <<gground, gnegs>>

NextNodes ==
    PrNodesCall
    /\ UNCHANGED <<sweepVars, edgeVars, cohVars, mainVars, negVars, unionVars>>

SpecNodes == InitNodes /\ [][NextNodes]_vars

\* C15: pr_nodes, given a ground truth table and a negative set of
\* (A, B, pathway) triples, returns the node curve without failing.
C15_NodeCurveWithoutFailing ==
    /\ pc # "n_raised"
    /\ gexc = NoException

====
